---------------------------- MODULE Spec2Model ----------------------------
(***************************************************************************)
(* Jobly back end: the partial-update SQL builder, the Company and Job     *)
(* repositories over the relational store, and the auth middleware.        *)
(*                                                                         *)
(* Conventions of the model                                                *)
(*   - a JS object is a sequence of <<key, value>> pairs with distinct     *)
(*     keys, in insertion order (Object.keys / Object.values order for     *)
(*     keys that are not integer-like);                                    *)
(*   - a nullable SQL value / optional JS value is <<>> (NULL, undefined)  *)
(*     or <<v>>;                                                           *)
(*   - a text value that ILIKE inspects is a tuple of one-character        *)
(*     strings;                                                            *)
(*   - a thrown error is named by its class; "none" is a normal return;    *)
(*     "DbError" is an error raised by the store client (db.query).        *)
(***************************************************************************)
EXTENDS Integers, Sequences, FiniteSets, TLC

VARIABLES
    companies,   \* the companies table: a sequence of rows (heap order)
    jobs,        \* the jobs table: a set of rows (id is the serial key)
    nextId,      \* the jobs.id serial sequence
    pc,          \* per client: "idle", or the Company.create awaiting its INSERT
    last,        \* the repository call that completed last, with its outcome
    sqlCall,     \* the last call of sqlForPartialUpdate, with its outcome
    req,         \* the HTTP request being processed by the middleware
    user,        \* res.locals.user: <<>> (undefined) or <<payload>>
    stage,       \* position of the request in the middleware chain
    nextArg,     \* what the middleware handed to next()
    res          \* the response sent: <<>> (none yet) or <<status>>

vars == <<companies, jobs, nextId, pc, last, sqlCall, req, user, stage, nextArg, res>>

repoVars == <<companies, jobs, nextId, pc, last>>
authVars == <<req, user, stage, nextArg, res>>

(***************************************************************************)
(* Bounds of the model.                                                    *)
(***************************************************************************)
\* longest update payload / field mapping (number of keys)
MaxKeys == 2
\* cap on the jobs.id serial sequence
MaxJobId == 2
\* cap on the number of rows of the jobs table
MaxJobs == 2

(***************************************************************************)
(* JavaScript helpers.                                                     *)
(***************************************************************************)
\* Object.keys(o)
Keys(o) == [i \in 1..Len(o) |-> o[i][1]]

\* Object.values(o)
Values(o) == [i \in 1..Len(o) |-> o[i][2]]

\* key in o / o.hasOwnProperty(key)
Has(o, k) == \E i \in 1..Len(o) : o[i][1] = k

\* o[key] of a present key
At(o, k) == o[CHOOSE i \in 1..Len(o) : o[i][1] = k][2]

\* o[key]: <<>> when the key is absent (undefined), else <<value>>
Get(o, k) == IF Has(o, k) THEN <<At(o, k)>> ELSE <<>>

\* a || b, for a an optional string: undefined and "" are falsy
JsOr(a, b) == IF a # <<>> /\ a[1] # "" THEN a[1] ELSE b

\* all JS objects with at most n keys drawn from ks, the value of key k from vs[k]
RECURSIVE Objects(_, _, _)
Objects(ks, vs, n) ==
    IF n = 0 THEN {<<>>}
    ELSE LET shorter == Objects(ks, vs, n - 1)
         IN  shorter \cup
             UNION {{Append(o, <<k, v>>) : v \in vs[k]} :
                      o \in {s \in shorter : Len(s) = n - 1}, k \in ks}

\* objects whose keys are distinct
DistinctKeys(o) == \A i, j \in 1..Len(o) : o[i][1] = o[j][1] => i = j


(***************************************************************************)
(* helpers/sql.js: the partial-update builder.                             *)
(* setCols, the text '"c1"=$1, "c2"=$2', is kept as the sequence of its    *)
(* assignments [col, ph]: column c bound to placeholder $ph.               *)
(***************************************************************************)
\* a builder without the guard against no data
sqlForPartialUpdateNoGuard(dataToUpdate, jsToSql) ==
    LET keys == Keys(dataToUpdate)
    IN  [err     |-> "none",
         setCols |-> [i \in 1..Len(keys) |->
                        [col |-> JsOr(Get(jsToSql, keys[i]), keys[i]), ph |-> i]],
         values  |-> Values(dataToUpdate)]

\* a builder that numbers the placeholders from $0
sqlForPartialUpdateFromZero(dataToUpdate, jsToSql) ==
    LET keys == Keys(dataToUpdate)
    IN  IF Len(keys) = 0
        THEN [err |-> "BadRequestError", setCols |-> <<>>, values |-> <<>>]
        ELSE [err     |-> "none",
              setCols |-> [i \in 1..Len(keys) |->
                             [col |-> JsOr(Get(jsToSql, keys[i]), keys[i]),
                              ph  |-> i - 1]],
              values  |-> Values(dataToUpdate)]

sqlForPartialUpdate(dataToUpdate, jsToSql) ==
    LET keys == Keys(dataToUpdate)
    IN  IF Len(keys) = 0
        THEN [err |-> "BadRequestError", setCols |-> <<>>, values |-> <<>>]
        ELSE [err     |-> "none",
              setCols |-> [i \in 1..Len(keys) |->
                             LET idx == i - 1
                             IN  [col |-> JsOr(Get(jsToSql, keys[i]), keys[i]),
                                  ph  |-> idx + 1]],
              values  |-> Values(dataToUpdate)]

\* field names and values handed to the builder
SqlFields == {"firstName", "lastName", "age", "numEmployees"}

SqlFieldValues ==
    [k \in SqlFields |-> IF k = "age" THEN {32, 50}
                         ELSE IF k = "numEmployees" THEN {100}
                         ELSE {"Aliya", "Frodo"}]

SqlData == {o \in Objects(SqlFields, SqlFieldValues, MaxKeys) : DistinctKeys(o)}

\* column-name mappings: none, the users' and the companies'
JsToSqlSet ==
    { <<>>,
      << <<"firstName", "first_name">>, <<"lastName", "last_name">> >>,
      << <<"numEmployees", "num_employees">>, <<"logoUrl", "logo_url">> >> }

SqlCall(dataToUpdate, jsToSql) ==
    /\ sqlCall' = [dataToUpdate |-> dataToUpdate,
                   jsToSql      |-> jsToSql,
                   out          |-> sqlForPartialUpdate(dataToUpdate, jsToSql)]
    /\ UNCHANGED <<repoVars, authVars>>

(***************************************************************************)
(* Auth middleware (ensureLoggedIn, ensureAdmin, ensureValidUserOrAdmin,   *)
(* authenticateJWT).  A bearer token is its payload and the key it was     *)
(* signed with; an Authorization header is a prefix and a token.           *)
(***************************************************************************)
SECRET_KEY == "secret"

Usernames == {"u1", "u2"}

\* token payloads { username, isAdmin }
Payloads == [username : Usernames, isAdmin : BOOLEAN]

\* tokens: signed with the server's key, or with another one
Tokens == [payload : Payloads, key : {SECRET_KEY, "other"}]

\* req.headers.authorization: <<>> (no header) or <<[prefix, token]>>
AuthHeaders ==
    {<<>>} \cup {<<h>> : h \in [prefix : {"", "Bearer ", "bearer ", "BEARER "},
                                token  : Tokens]}

\* the mutating job routes
Routes == {"POST /jobs", "PATCH /jobs/:id", "DELETE /jobs/:id"}

\* requests: the header, the route's :username parameter and the route
Requests == [authorization : AuthHeaders, username : Usernames, route : Routes]

\* authHeader.replace(/^[Bb]earer /, "").trim()
StripBearer(h) ==
    IF h.prefix \in {"Bearer ", "bearer "} THEN [h EXCEPT !.prefix = ""] ELSE h

\* jwt.verify(token, key): <<payload>>, or <<>> when it throws
JwtVerify(t, key) ==
    IF t.prefix = "" /\ t.token.key = key THEN <<t.token.payload>> ELSE <<>>

\* a new request enters the middleware chain, once the handler of the one
\* before has answered
Receive(r) ==
    /\ stage \notin {"received", "authenticateJWT"}
    /\ last.op = "none"
    /\ req' = r
    /\ user' = <<>>
    /\ nextArg' = <<>>
    /\ stage' = "received"
    /\ res' = <<>>
    /\ UNCHANGED <<repoVars, sqlCall>>

\* a middleware whose catch hands the verification error to next(err)
AuthenticateJWTStrict(authHeader, u) ==
    IF authHeader # <<>> /\ JwtVerify(StripBearer(authHeader[1]), SECRET_KEY) = <<>>
    THEN [user |-> u, next |-> <<"JsonWebTokenError">>]
    ELSE [user |-> IF authHeader # <<>>
                   THEN JwtVerify(StripBearer(authHeader[1]), SECRET_KEY)
                   ELSE u,
          next |-> <<"ok">>]

\* the body of authenticateJWT: res.locals.user afterwards and the calls of
\* next it made, in order.  A failed verification throws before the try
\* block's next(), and the catch calls next() instead
AuthenticateJWTResult(authHeader, u) ==
    IF authHeader # <<>>
    THEN LET verified == JwtVerify(StripBearer(authHeader[1]), SECRET_KEY)
         IN  IF verified # <<>>
             THEN [user |-> verified, next |-> <<"ok">>]
             ELSE [user |-> u, next |-> <<"ok">>]
    ELSE [user |-> u, next |-> <<"ok">>]

authenticateJWT ==
    /\ stage = "received"
    /\ LET out == AuthenticateJWTResult(req.authorization, user)
       IN  /\ user' = out.user
           /\ nextArg' = out.next
    /\ stage' = "authenticateJWT"
    /\ UNCHANGED <<repoVars, sqlCall, req, res>>

\* what each guard hands to next(): "ok" for next(), else the error's class
EnsureLoggedInResult(u) ==
    IF u = <<>> THEN "UnauthorizedError" ELSE "ok"

\* a guard that lets every request through
EnsureAdminAllowAll(u) == "ok"

\* !res.locals.user.isAdmin || !res.locals.user: reading isAdmin of undefined
\* throws a TypeError, which the catch hands to next(err)
EnsureAdminResult(u) ==
    IF u = <<>> THEN "TypeError"
    ELSE IF ~u[1].isAdmin \/ u = <<>> THEN "UnauthorizedError"
    ELSE "ok"

\* a guard that asks for an admin who is also the named user
EnsureValidUserAndAdminResult(u, params) ==
    IF ~(u # <<>> /\ (u[1].isAdmin /\ u[1].username = params.username))
    THEN "UnauthorizedError"
    ELSE "ok"

EnsureValidUserOrAdminResult(u, params) ==
    IF ~(u # <<>> /\ (u[1].isAdmin \/ u[1].username = params.username))
    THEN "UnauthorizedError"
    ELSE "ok"

ensureLoggedIn ==
    /\ stage = "authenticateJWT"
    /\ nextArg' = <<EnsureLoggedInResult(user)>>
    /\ stage' = "ensureLoggedIn"
    /\ UNCHANGED <<repoVars, sqlCall, req, user, res>>

ensureAdmin ==
    /\ stage = "authenticateJWT"
    /\ nextArg' = <<EnsureAdminResult(user)>>
    /\ stage' = "ensureAdmin"
    /\ UNCHANGED <<repoVars, sqlCall, req, user, res>>

ensureValidUserOrAdmin ==
    /\ stage = "authenticateJWT"
    /\ nextArg' = <<EnsureValidUserOrAdminResult(user, [username |-> req.username])>>
    /\ stage' = "ensureValidUserOrAdmin"
    /\ UNCHANGED <<repoVars, sqlCall, req, user, res>>

(***************************************************************************)
(* The relational store behind db.query.                                   *)
(* A WHERE clause is a sequence of conditions [col, op, ph]: column col    *)
(* compared by op with the bind parameter $ph.                             *)
(***************************************************************************)
Range(f) == {f[i] : i \in DOMAIN f}

\* the decimal digits
Digits == <<"0", "1", "2", "3", "4", "5", "6", "7", "8", "9">>

\* Number(v) of a query value, a string of decimal digits; the store reads a
\* bind parameter for an integer column the same way
RECURSIVE Number(_)
Number(v) ==
    IF v = <<>> THEN 0
    ELSE LET last_ == v[Len(v)]
             digit == (CHOOSE d \in 1..Len(Digits) : Digits[d] = last_) - 1
         IN  Number(SubSeq(v, 1, Len(v) - 1)) * Len(Digits) + digit

\* lower-case of a character, as ILIKE folds case
Lower(ch) == IF ch = "A" THEN "a" ELSE IF ch = "B" THEN "b" ELSE ch

\* text LIKE pattern, case folded: % matches any run, _ any one character
RECURSIVE Like(_, _)
Like(text, pattern) ==
    IF pattern = <<>> THEN text = <<>>
    ELSE IF Head(pattern) = "%"
         THEN Like(text, Tail(pattern)) \/ (text # <<>> /\ Like(Tail(text), pattern))
    ELSE IF text = <<>> THEN FALSE
    ELSE /\ (Head(pattern) = "_" \/ Lower(Head(pattern)) = Lower(Head(text)))
         /\ Like(Tail(text), Tail(pattern))

\* one condition on a column value; a comparison with NULL is not true
Holds(v, op, x) ==
    CASE op = "="     -> v = x
      [] op = "ILIKE" -> Like(v, x)
      [] op = ">="    -> v # <<>> /\ v[1] >= Number(x)
      [] op = "<="    -> v # <<>> /\ v[1] <= Number(x)
      [] op = ">"     -> v # <<>> /\ v[1] > Number(x)

Matches(row, where, params) ==
    \A i \in 1..Len(where) : Holds(row[where[i].col], where[i].op, params[where[i].ph])

\* SET col = $ph, ... applied to one row
RECURSIVE Assign(_, _, _)
Assign(row, setCols, params) ==
    IF setCols = <<>> THEN row
    ELSE Assign([row EXCEPT ![Head(setCols).col] = params[Head(setCols).ph]],
                Tail(setCols), params)

\* the store rejects a statement that names a column the table does not have
KnownCols(cols, setCols) == \A i \in 1..Len(setCols) : setCols[i].col \in cols

(***************************************************************************)
(* models/company.js                                                       *)
(***************************************************************************)
Clients == {1, 2}

Handles == {"c1", "c2"}
Names == {<<"a">>, <<"A", "b">>}
EmployeeCounts == {<<>>, <<1>>}
Descriptions == {"Desc1"}
LogoUrls == {"http://c1.img"}

CompanyCols == {"handle", "name", "description", "num_employees", "logo_url"}

\* { handle, name, description, numEmployees, logoUrl }
CompanyData ==
    [handle : Handles, name : Names, description : Descriptions,
     numEmployees : EmployeeCounts, logoUrl : LogoUrls]

\* the rows of a table, by its name
Table(from) == IF from = "companies" THEN Range(companies) ELSE jobs

selectQuery(from, where, fields) ==
    LET whereClause == [i \in 1..Len(where) |-> [col |-> where[i], op |-> "=", ph |-> i]]
    IN  {r \in Table(from) : Matches(r, whereClause, fields)}

\* RETURNING handle, name, description, num_employees AS "numEmployees",
\* logo_url AS "logoUrl"
ReturningCompany(row) ==
    [handle |-> row.handle, name |-> row.name, description |-> row.description,
     numEmployees |-> row.num_employees, logoUrl |-> row.logo_url]

\* a store without the unique constraint
UniqueViolationNever(rows, row) == FALSE

\* the store's unique constraint on companies.handle
UniqueViolation(rows, row) == \E r \in Range(rows) : r.handle = row.handle

\* the record of a call (or of the step of it that ran last): its outcome,
\* the statements it has issued so far, and the tables before it ran
Outcome(op, client, args, err, result, nq) ==
    [op |-> op, client |-> client, args |-> args, err |-> err, result |-> result,
     nq |-> nq, preCompanies |-> companies, preJobs |-> jobs]

\* the caller takes the outcome of the call: the route handler answers with
\* the result, or hands the error on
Respond ==
    /\ last.op # "none"
    /\ last' = [op |-> "none"]
    /\ UNCHANGED <<companies, jobs, nextId, pc, sqlCall, authVars>>

\* client p may start, or resume, a call
Ready(p) == last.op = "none"

\* a duplicate check that never throws
DuplicateFoundNever(duplicateCheck) == FALSE

\* if (duplicateCheck.rows[0])
DuplicateFound(duplicateCheck) == duplicateCheck # {}

\* Company.create, up to its second await: the duplicate check.  The call
\* then holds its argument and duplicateCheck until the INSERT runs.
CompanyCreateCheck(p, data) ==
    /\ Ready(p)
    /\ pc[p] = <<>>
    /\ LET duplicateCheck == selectQuery("companies", <<"handle">>, <<data.handle>>)
       IN  IF DuplicateFound(duplicateCheck)
           THEN /\ last' = Outcome("Company.create", p, data, "BadRequestError", <<>>, 1)
                /\ pc' = pc
           ELSE /\ last' = last
                /\ pc' = [pc EXCEPT ![p] = <<[data |-> data,
                                              duplicateCheck |-> duplicateCheck]>>]
    /\ UNCHANGED <<companies, jobs, nextId, sqlCall, authVars>>

\* Company.create, resumed: the INSERT
CompanyCreateInsert(p) ==
    /\ Ready(p)
    /\ pc[p] # <<>>
    /\ LET data == pc[p][1].data
           row  == [handle |-> data.handle, name |-> data.name,
                    description |-> data.description,
                    num_employees |-> data.numEmployees, logo_url |-> data.logoUrl]
       IN  IF UniqueViolation(companies, row)
           THEN /\ last' = Outcome("Company.create", p, data, "DbError", <<>>, 2)
                /\ companies' = companies
           ELSE /\ last' = Outcome("Company.create", p, data, "none",
                                   <<ReturningCompany(row)>>, 2)
                /\ companies' = Append(companies, row)
    /\ pc' = [pc EXCEPT ![p] = <<>>]
    /\ UNCHANGED <<jobs, nextId, sqlCall, authVars>>

\* Company.get: [err, result, nq]; the row comes from SELECT *, under the
\* store's column names, and gets the jobs whose company_handle is the handle
CompanyGetOutcome(handle) ==
    LET companyRes == selectQuery("companies", <<"handle">>, <<handle>>)
        job        == selectQuery("jobs", <<"company_handle">>, <<handle>>)
    IN  IF companyRes = {}
        THEN {[err |-> "NotFoundError", result |-> <<>>, nq |-> 1]}
        ELSE {[err |-> "none",
               result |-> <<[handle |-> company.handle, name |-> company.name,
                             description |-> company.description,
                             num_employees |-> company.num_employees,
                             logo_url |-> company.logo_url, jobs |-> job]>>,
               nq |-> 2] : company \in companyRes}

\* Company.get, called by a client that is idle or has just got the outcome
\* of its Company.create, which the record of the call keeps as "after"
CompanyGet(p, handle) ==
    /\ pc[p] = <<>>
    /\ Ready(p) \/ (last.op = "Company.create" /\ last.client = p)
    /\ \E out \in CompanyGetOutcome(handle) :
           last' = [after |-> IF last.op = "none" THEN [op |-> "none"]
                              ELSE [op |-> last.op, args |-> last.args, err |-> last.err]]
                   @@ Outcome("Company.get", p, [handle |-> handle],
                              out.err, out.result, out.nq)
    /\ UNCHANGED <<companies, jobs, nextId, pc, sqlCall, authVars>>

\* the column names Company.update hands to the builder
CompanyJsToSql == << <<"numEmployees", "num_employees">>, <<"logoUrl", "logo_url">> >>

CompanyUpdateFields == {"name", "description", "numEmployees", "logoUrl"}

CompanyUpdateValues ==
    [k \in CompanyUpdateFields |->
        CASE k = "name"         -> Names
          [] k = "description"  -> Descriptions
          [] k = "numEmployees" -> EmployeeCounts
          [] k = "logoUrl"      -> LogoUrls]

CompanyUpdateData ==
    {o \in Objects(CompanyUpdateFields, CompanyUpdateValues, MaxKeys) : DistinctKeys(o)}

\* Company.update: [err, result, nq, table]
CompanyUpdateOutcome(handle, data) ==
    LET built == sqlForPartialUpdate(data, CompanyJsToSql)
    IN  IF built.err # "none"
        THEN [err |-> built.err, result |-> <<>>, nq |-> 0, table |-> companies]
        ELSE
        LET handleVarIdx == Len(built.values) + 1
            params == built.values \o <<handle>>
            where  == << [col |-> "handle", op |-> "=", ph |-> handleVarIdx] >>
            hit    == {i \in DOMAIN companies : Matches(companies[i], where, params)}
            table  == [i \in DOMAIN companies |->
                         IF i \in hit THEN Assign(companies[i], built.setCols, params)
                         ELSE companies[i]]
            rows   == {ReturningCompany(table[i]) : i \in hit}
        IN  IF ~KnownCols(CompanyCols, built.setCols)
            THEN [err |-> "DbError", result |-> <<>>, nq |-> 1, table |-> companies]
            ELSE IF rows = {}
            THEN [err |-> "NotFoundError", result |-> <<>>, nq |-> 1, table |-> table]
            ELSE [err |-> "none", result |-> <<CHOOSE r \in rows : TRUE>>, nq |-> 1,
                  table |-> table]

CompanyUpdate(p, handle, data) ==
    /\ Ready(p)
    /\ pc[p] = <<>>
    /\ LET out == CompanyUpdateOutcome(handle, data)
       IN  /\ last' = Outcome("Company.update", p, [handle |-> handle, data |-> data],
                              out.err, out.result, out.nq)
           /\ companies' = out.table
    /\ UNCHANGED <<jobs, nextId, pc, sqlCall, authVars>>

\* what deleting a company does to the jobs that reference it: nothing
JobsAfterCompanyDelete(handle) == jobs

\* Company.remove: [err, nq, table]
CompanyRemoveOutcome(handle) ==
    LET where == << [col |-> "handle", op |-> "=", ph |-> 1] >>
        hit   == {i \in DOMAIN companies : Matches(companies[i], where, <<handle>>)}
        table == SelectSeq(companies, LAMBDA r : ~Matches(r, where, <<handle>>))
    IN  IF hit = {}
        THEN [err |-> "NotFoundError", nq |-> 1, table |-> table]
        ELSE [err |-> "none", nq |-> 1, table |-> table]

CompanyRemove(p, handle) ==
    /\ Ready(p)
    /\ pc[p] = <<>>
    /\ LET out == CompanyRemoveOutcome(handle)
       IN  /\ last' = Outcome("Company.remove", p, [handle |-> handle],
                              out.err, <<>>, out.nq)
           /\ companies' = out.table
           /\ jobs' = IF out.err = "none" THEN JobsAfterCompanyDelete(handle) ELSE jobs
    /\ UNCHANGED <<nextId, pc, sqlCall, authVars>>

\* filtersQuery = filters.length > 1 ? filters.join(" AND ") : filters[0]
\* no filter at all leaves undefined, which the template prints as "undefined"
FiltersQuery(filters) ==
    IF Len(filters) > 1 THEN [undefined |-> FALSE, where |-> filters]
    ELSE IF Len(filters) = 1 THEN [undefined |-> FALSE, where |-> <<filters[1]>>]
    ELSE [undefined |-> TRUE, where |-> <<>>]

\* SELECT ... WHERE <filtersQuery>: the rows, or <<>> with the store's error
\* (WHERE undefined names a column that no table has)
SelectWhere(rows, filtersQuery, filtersValues) ==
    IF filtersQuery.undefined
    THEN [err |-> "DbError", rows |-> {}]
    ELSE [err |-> "none",
          rows |-> {r \in rows : Matches(r, filtersQuery.where, filtersValues)}]

\* a filter clause pushed on filters, with the value pushed on filtersValues
Pushed(filters, col, op, value) ==
    Append(filters, [clause |-> [col |-> col, op |-> op, ph |-> Len(filters) + 1],
                     value  |-> value])

\* a validation that looks at the first key only
InvalidFirstFilter(query, validFilters) ==
    Len(query) > 0 /\ Keys(query)[1] \notin validFilters

\* some key of the query is not a valid filter
InvalidFilter(query, validFilters) ==
    \E i \in 1..Len(query) : Keys(query)[i] \notin validFilters

CompanyValidFilters == {"name", "minEmployees", "maxEmployees"}

\* a filter that does not compare the bounds
MinGreaterThanMaxNever(query) == FALSE

MinGreaterThanMax(query) ==
    /\ Has(query, "minEmployees")
    /\ Has(query, "maxEmployees")
    /\ Number(At(query, "minEmployees")) > Number(At(query, "maxEmployees"))

\* Company.filter: [err, result, nq]; the rows come back as a set (ORDER BY
\* name is not modelled)
CompanyFilterOutcome(query) ==
    IF InvalidFilter(query, CompanyValidFilters)
    THEN [err |-> "BadRequestError", result |-> {}, nq |-> 0]
    ELSE IF MinGreaterThanMax(query)
    THEN [err |-> "BadRequestError", result |-> {}, nq |-> 0]
    ELSE
    LET f0 == <<>>
        f1 == IF Has(query, "name")
              THEN Pushed(f0, "name", "ILIKE", <<"%">> \o At(query, "name") \o <<"%">>)
              ELSE f0
        f2 == IF Has(query, "minEmployees")
              THEN Pushed(f1, "num_employees", ">=", At(query, "minEmployees"))
              ELSE f1
        f3 == IF Has(query, "maxEmployees")
              THEN Pushed(f2, "num_employees", "<=", At(query, "maxEmployees"))
              ELSE f2
        filters       == [i \in 1..Len(f3) |-> f3[i].clause]
        filtersValues == [i \in 1..Len(f3) |-> f3[i].value]
        companiesRes  == SelectWhere(Range(companies), FiltersQuery(filters),
                                     filtersValues)
    IN  [err |-> companiesRes.err, result |-> companiesRes.rows, nq |-> 1]

\* query strings handed to Company.filter; "handle" is not a valid filter
CompanyQueryKeys == {"name", "minEmployees", "maxEmployees", "handle"}

CompanyQueryValues ==
    [k \in CompanyQueryKeys |->
        CASE k = "name"         -> {<<"a">>, <<"B">>}
          [] k = "minEmployees" -> {<<"0">>, <<"1">>, <<"2">>, <<"1", "0">>}
          [] k = "maxEmployees" -> {<<"0">>, <<"1">>, <<"2">>, <<"1", "0">>}
          [] k = "handle"       -> {"c1"}]

CompanyQueries ==
    {o \in Objects(CompanyQueryKeys, CompanyQueryValues, MaxKeys) : DistinctKeys(o)}

CompanyFilter(p, query) ==
    /\ Ready(p)
    /\ pc[p] = <<>>
    /\ LET out == CompanyFilterOutcome(query)
       IN  last' = Outcome("Company.filter", p, [query |-> query],
                           out.err, out.result, out.nq)
    /\ UNCHANGED <<companies, jobs, nextId, pc, sqlCall, authVars>>

(***************************************************************************)
(* models/job.js                                                           *)
(* equity is held in tenths: <<5>> is 0.5.                                 *)
(***************************************************************************)
Titles == {<<"a">>, <<"b">>}
Salaries == {<<1>>}
Equities == {<<0>>, <<5>>}

JobCols == {"id", "title", "salary", "equity", "company_handle"}

\* { title, salary, equity, company_handle }
JobData ==
    [title : Titles, salary : Salaries, equity : Equities, company_handle : Handles]

\* the ids a caller may name: those the sequence can issue, and one more
JobIds == 1..(MaxJobId + 1)

\* the store's foreign key jobs.company_handle -> companies.handle
ForeignKeyViolation(rows, handle) == \A r \in Range(rows) : r.handle # handle

JobCreate(p, data) ==
    /\ Ready(p)
    /\ pc[p] = <<>>
    /\ nextId <= MaxJobId
    /\ Cardinality(jobs) < MaxJobs
    /\ LET job == [id |-> nextId, title |-> data.title, salary |-> data.salary,
                   equity |-> data.equity, company_handle |-> data.company_handle]
       IN  IF ForeignKeyViolation(companies, data.company_handle)
           THEN /\ last' = Outcome("Job.create", p, data, "DbError", <<>>, 1)
                /\ UNCHANGED <<jobs, nextId>>
           ELSE /\ last' = Outcome("Job.create", p, data, "none", <<job>>, 1)
                /\ jobs' = jobs \cup {job}
                /\ nextId' = nextId + 1
    /\ UNCHANGED <<companies, pc, sqlCall, authVars>>

JobValidFilters == {"title", "minSalary", "hasEquity"}

\* Job.filter: [err, result, nq]; the rows come back as a set (ORDER BY
\* company_handle is not modelled)
JobFilterOutcome(query) ==
    IF InvalidFilter(query, JobValidFilters)
    THEN [err |-> "BadRequestError", result |-> {}, nq |-> 0]
    ELSE
    LET f0 == <<>>
        f1 == IF Has(query, "title")
              THEN Pushed(f0, "title", "ILIKE", <<"%">> \o At(query, "title") \o <<"%">>)
              ELSE f0
        f2 == IF Has(query, "minSalary")
              THEN Pushed(f1, "salary", ">=", At(query, "minSalary"))
              ELSE f1
        f3 == IF Has(query, "hasEquity") /\ At(query, "hasEquity") = "true"
              THEN Pushed(f2, "equity", ">", <<"0">>)
              ELSE f2
        filters       == [i \in 1..Len(f3) |-> f3[i].clause]
        filtersValues == [i \in 1..Len(f3) |-> f3[i].value]
        jobsRes       == SelectWhere(jobs, FiltersQuery(filters), filtersValues)
    IN  [err |-> jobsRes.err, result |-> jobsRes.rows, nq |-> 1]

\* query strings handed to Job.filter; "name" is not a valid filter
JobQueryKeys == {"title", "minSalary", "hasEquity", "name"}

JobQueryValues ==
    [k \in JobQueryKeys |->
        CASE k = "title"     -> {<<"A">>}
          [] k = "minSalary" -> {<<"1">>, <<"2">>}
          [] k = "hasEquity" -> {"true", "false"}
          [] k = "name"      -> {"todd"}]

JobQueries ==
    {o \in Objects(JobQueryKeys, JobQueryValues, MaxKeys) : DistinctKeys(o)}

JobFilter(p, query) ==
    /\ Ready(p)
    /\ pc[p] = <<>>
    /\ LET out == JobFilterOutcome(query)
       IN  last' = Outcome("Job.filter", p, [query |-> query],
                           out.err, out.result, out.nq)
    /\ UNCHANGED <<companies, jobs, nextId, pc, sqlCall, authVars>>

\* the keys of the payloads handed to Job.update: the documented title,
\* salary and equity, and company_handle, which the method hands to the
\* builder like any other key
JobUpdateFields == {"title", "salary", "equity", "company_handle"}

JobUpdateValues ==
    [k \in JobUpdateFields |->
        CASE k = "title"          -> Titles
          [] k = "salary"         -> Salaries
          [] k = "equity"         -> Equities
          [] k = "company_handle" -> Handles]

JobUpdateData ==
    {o \in Objects(JobUpdateFields, JobUpdateValues, MaxKeys) : DistinctKeys(o)}

\* Job.update: [err, result, nq, table]
JobUpdateOutcome(id, data) ==
    LET built == sqlForPartialUpdate(data, <<>>)
    IN  IF built.err # "none"
        THEN [err |-> built.err, result |-> <<>>, nq |-> 0, table |-> jobs]
        ELSE
        LET idVarIdx == Len(built.values) + 1
            params == built.values \o <<id>>
            where  == << [col |-> "id", op |-> "=", ph |-> idVarIdx] >>
            hit    == {r \in jobs : Matches(r, where, params)}
            rows   == {Assign(r, built.setCols, params) : r \in hit}
            table  == (jobs \ hit) \cup rows
        IN  IF ~KnownCols(JobCols, built.setCols)
            THEN [err |-> "DbError", result |-> <<>>, nq |-> 1, table |-> jobs]
            ELSE IF \E r \in hit :
                       LET new == Assign(r, built.setCols, params)
                       IN  /\ new.company_handle # r.company_handle
                           /\ ForeignKeyViolation(companies, new.company_handle)
            THEN [err |-> "DbError", result |-> <<>>, nq |-> 1, table |-> jobs]
            ELSE IF rows = {}
            THEN [err |-> "NotFoundError", result |-> <<>>, nq |-> 1, table |-> table]
            ELSE [err |-> "none", result |-> <<CHOOSE r \in rows : TRUE>>, nq |-> 1,
                  table |-> table]

JobUpdate(p, id, data) ==
    /\ Ready(p)
    /\ pc[p] = <<>>
    /\ LET out == JobUpdateOutcome(id, data)
       IN  /\ last' = Outcome("Job.update", p, [id |-> id, data |-> data],
                              out.err, out.result, out.nq)
           /\ jobs' = out.table
    /\ UNCHANGED <<companies, nextId, pc, sqlCall, authVars>>

\* a remove that does not look at the rows the DELETE returned
JobRemoveOutcomeUnchecked(id) ==
    [err |-> "none", nq |-> 1, table |-> {r \in jobs : r.id # id}]

\* Job.remove: [err, nq, table]
JobRemoveOutcome(id) ==
    LET where == << [col |-> "id", op |-> "=", ph |-> 1] >>
        hit   == {r \in jobs : Matches(r, where, <<id>>)}
    IN  IF hit = {}
        THEN [err |-> "NotFoundError", nq |-> 1, table |-> jobs \ hit]
        ELSE [err |-> "none", nq |-> 1, table |-> jobs \ hit]

JobRemove(p, id) ==
    /\ Ready(p)
    /\ pc[p] = <<>>
    /\ LET out == JobRemoveOutcome(id)
       IN  /\ last' = Outcome("Job.remove", p, [id |-> id], out.err, <<>>, out.nq)
           /\ jobs' = out.table
    /\ UNCHANGED <<companies, nextId, pc, sqlCall, authVars>>

\* Job.get, for the row the first statement returned as rows[0]: the job
\* with company_handle replaced by company.rows[0], <<>> when the second
\* statement returned no row (undefined)
JobGetResult(job) ==
    LET where   == << [col |-> "handle", op |-> "=", ph |-> 1] >>
        company == {c \in Range(companies) : Matches(c, where, <<job.company_handle>>)}
    IN  IF company = {}
        THEN {[job EXCEPT !.company_handle = <<>>]}
        ELSE {[job EXCEPT !.company_handle = <<c>>] : c \in company}

\* Job.get: the first statement has no ORDER BY, so rows[0] is any of the
\* jobs with the title
JobGet(p, title) ==
    /\ Ready(p)
    /\ pc[p] = <<>>
    /\ LET where == << [col |-> "title", op |-> "=", ph |-> 1] >>
           rows  == {j \in jobs : Matches(j, where, <<title>>)}
       IN  IF rows = {}
           THEN last' = Outcome("Job.get", p, [title |-> title], "NotFoundError", <<>>, 1)
           ELSE \E job \in rows : \E result \in JobGetResult(job) :
                    last' = Outcome("Job.get", p, [title |-> title], "none", <<result>>, 2)
    /\ UNCHANGED <<companies, jobs, nextId, pc, sqlCall, authVars>>

(***************************************************************************)
(* The job routes: authenticateJWT, then ensureAdmin, then the handler that *)
(* calls the Job repository and answers; an error handed to next is        *)
(* answered by the error handler.                                          *)
(***************************************************************************)
\* the status the error handler answers with
StatusOf(err) ==
    CASE err = "UnauthorizedError" -> 401
      [] err = "BadRequestError"   -> 400
      [] err = "NotFoundError"     -> 404
      [] OTHER                     -> 500

\* the handler of the request's route calls the repository
RouteCall ==
    /\ stage = "ensureAdmin"
    /\ nextArg = <<"ok">>
    /\ CASE req.route = "POST /jobs" ->
               \E data \in JobData : JobCreate(1, data)
         [] req.route = "PATCH /jobs/:id" ->
               \E id \in JobIds, data \in JobUpdateData : JobUpdate(1, id, data)
         [] req.route = "DELETE /jobs/:id" ->
               \E id \in JobIds : JobRemove(1, id)

\* the handler answers with the call's result, or hands its error to next
SendResponse ==
    /\ stage = "ensureAdmin"
    /\ nextArg = <<"ok">>
    /\ last.op # "none"
    /\ res' = <<IF last.err # "none" THEN StatusOf(last.err)
                ELSE IF req.route = "POST /jobs" THEN 201 ELSE 200>>
    /\ stage' = "responded"
    /\ last' = [op |-> "none"]
    /\ UNCHANGED <<companies, jobs, nextId, pc, sqlCall, req, user, nextArg>>

\* the guard handed an error to next: the error handler answers
ErrorHandler ==
    /\ stage = "ensureAdmin"
    /\ nextArg # <<"ok">>
    /\ res' = <<StatusOf(nextArg[1])>>
    /\ stage' = "responded"
    /\ UNCHANGED <<repoVars, sqlCall, req, user, nextArg>>

\* the companies in the store before the first request
SeedCompanies == {d \in CompanyData : d.handle = "c1" /\ d.name = <<"a">> /\ d.numEmployees = <<1>>}

\* the store is filled before the first request arrives
Seed ==
    /\ stage = "idle"
    /\ \/ \E data \in SeedCompanies : CompanyCreateCheck(1, data)
       \/ CompanyCreateInsert(1)
       \/ Respond

(***************************************************************************)
(* Specifications.                                                         *)
(***************************************************************************)
Init ==
    /\ companies = <<>>
    /\ jobs = {}
    /\ nextId = 1
    /\ pc = [p \in Clients |-> <<>>]
    /\ last = [op |-> "none"]
    /\ sqlCall = [out |-> [err |-> "not called"]]
    /\ req = [authorization |-> <<>>, username |-> "u1", route |-> "POST /jobs"]
    /\ user = <<>>
    /\ stage = "idle"
    /\ nextArg = <<>>
    /\ res = <<>>

\* the Company repository, called by the clients ps
CompanyNext(ps) ==
    \E p \in ps :
        \/ \E data \in CompanyData : CompanyCreateCheck(p, data)
        \/ CompanyCreateInsert(p)
        \/ \E handle \in Handles, data \in CompanyUpdateData : CompanyUpdate(p, handle, data)
        \/ \E handle \in Handles : CompanyRemove(p, handle)
        \/ \E query \in CompanyQueries : CompanyFilter(p, query)
        \/ \E handle \in Handles : CompanyGet(p, handle)

\* the Job repository, called by the clients ps
JobNext(ps) ==
    \E p \in ps :
        \/ \E data \in JobData : JobCreate(p, data)
        \/ \E id \in JobIds, data \in JobUpdateData : JobUpdate(p, id, data)
        \/ \E id \in JobIds : JobRemove(p, id)
        \/ \E query \in JobQueries : JobFilter(p, query)
        \/ \E title \in Titles : JobGet(p, title)

\* one client at a time calls the repositories
Next == CompanyNext({1}) \/ JobNext({1}) \/ Respond

Spec == Init /\ [][Next]_vars

\* concurrent clients call the Company repository
SpecCompany == Init /\ [][CompanyNext(Clients) \/ Respond]_vars

SqlNext == \E dataToUpdate \in SqlData, jsToSql \in JsToSqlSet : SqlCall(dataToUpdate, jsToSql)

SpecSql == Init /\ [][SqlNext]_vars

AuthNext ==
    \/ \E r \in Requests : Receive(r)
    \/ authenticateJWT
    \/ ensureLoggedIn
    \/ ensureAdmin
    \/ ensureValidUserOrAdmin

SpecAuth == Init /\ [][AuthNext]_vars

\* requests to the job routes, whose username parameter is unused: no
\* header, or a token of u1 behind the prefix "Bearer " or "BEARER "
RouteRequests ==
    {r \in Requests :
        /\ r.username = "u1"
        /\ r.authorization # <<>> =>
              /\ r.authorization[1].prefix \in {"Bearer ", "BEARER "}
              /\ r.authorization[1].token.payload.username = "u1"}

RoutesNext ==
    \/ Seed
    \/ \E r \in RouteRequests : Receive(r)
    \/ authenticateJWT
    \/ ensureAdmin
    \/ RouteCall
    \/ SendResponse
    \/ ErrorHandler

SpecRoutes == Init /\ [][RoutesNext]_vars

(***************************************************************************)
(* Properties.                                                             *)
(***************************************************************************)
HandleIn(rows, handle) == \E r \in Range(rows) : r.handle = handle

\* this step is the duplicate check of a Company.create of client p
CreateChecked(p) ==
    /\ pc[p] = <<>>
    /\ last.op = "none"
    /\ \/ pc'[p] # <<>>
       \/ last'.op = "Company.create" /\ last'.client = p /\ last'.nq = 1

\* the argument of the Company.create whose duplicate check this step is
CheckedData(p) == IF pc'[p] # <<>> THEN pc'[p][1].data ELSE last'.args

(* C1: a Company.create whose handle is in the companies table when its    *)
(* duplicate check runs fails with BadRequest, whatever its other fields,  *)
(* never goes on to its INSERT, and leaves the tables as they were.        *)
C1_DuplicateHandleRejected ==
    [][\A p \in Clients :
         (CreateChecked(p) /\ HandleIn(companies, CheckedData(p).handle))
            => /\ pc'[p] = <<>>
               /\ last'.err = "BadRequestError"
               /\ companies' = companies
               /\ jobs' = jobs]_vars

\* a create was refused for its handle though its name differs from the stored row's
C1_Witness ==
    /\ last.op = "Company.create"
    /\ last.err = "BadRequestError"
    /\ \E r \in Range(companies) :
          r.handle = last.args.handle /\ r.name # last.args.name

(* C2: in every reachable state, under any interleaving of the clients'    *)
(* Company.create (check, then insert), Company.update and Company.remove, *)
(* no two rows of the companies table have the same handle.                *)
C2_HandlesUnique ==
    \A i, j \in DOMAIN companies :
        companies[i].handle = companies[j].handle => i = j

\* two creates of one handle both passed the duplicate check; the second
\* INSERT was refused by the store
C2_Witness ==
    /\ last.op = "Company.create"
    /\ last.err = "DbError"
    /\ HandleIn(companies, last.args.handle)

\* the target of the update or remove that completed last is not in its table
TargetMissing ==
    \/ /\ last.op \in {"Company.update", "Company.remove"}
       /\ ~HandleIn(last.preCompanies, last.args.handle)
    \/ /\ last.op \in {"Job.update", "Job.remove"}
       /\ \A j \in last.preJobs : j.id # last.args.id

EmptyPayload == last.op \in {"Company.update", "Job.update"} /\ last.args.data = <<>>

(* C3 as stated: Company.update and Company.remove of a handle that is not *)
(* in the store, and Job.update and Job.remove of an id that is not in the *)
(* store, fail with NotFound, for every update payload.                    *)
C3_MissingTargetNotFound_AsStated ==
    TargetMissing => last.err = "NotFoundError"

(* C3 amended: Company.update and Company.remove of a handle that is not   *)
(* in the store, and Job.update and Job.remove of an id that is not in the *)
(* store, fail with NotFound for every non-empty update payload; an update *)
(* with an empty payload fails with BadRequest instead.  Either way the    *)
(* tables are left as they were.                                           *)
C3_MissingTargetNotFound ==
    TargetMissing =>
        /\ last.err = (IF EmptyPayload THEN "BadRequestError" ELSE "NotFoundError")
        /\ companies = last.preCompanies
        /\ jobs = last.preJobs

\* a non-empty update of a job id that is not in a non-empty jobs table
C3_Witness ==
    /\ last.op = "Job.update"
    /\ TargetMissing
    /\ last.args.data # <<>>
    /\ jobs # {}
    /\ last.err = "NotFoundError"

(* C4: ensureAdmin hands an Unauthorized error to next when the request    *)
(* has no identity or the identity's isAdmin is false, and calls next      *)
(* without an error only for an identity whose isAdmin is true.            *)
C4_EnsureAdmin ==
    stage = "ensureAdmin" =>
        nextArg = IF user = <<>> \/ ~user[1].isAdmin
                  THEN <<"UnauthorizedError">>
                  ELSE <<"ok">>

\* the keys of the query of the filter that completed last
QueryKeys == Range(Keys(last.args.query))

\* text contains sub, case folded
ContainsCI(text, sub) ==
    \E k \in 0..(Len(text) - Len(sub)) :
        \A i \in 1..Len(sub) : Lower(text[k + i]) = Lower(sub[i])

\* the jobs a valid query selects, as C5 reads it
JobsSelected(query) ==
    {j \in jobs :
        /\ Has(query, "title") => ContainsCI(j.title, At(query, "title"))
        /\ Has(query, "minSalary") =>
              (j.salary # <<>> /\ j.salary[1] >= Number(At(query, "minSalary")))
        /\ (Has(query, "hasEquity") /\ At(query, "hasEquity") = "true") =>
              (j.equity # <<>> /\ j.equity[1] > 0)}

(* C5: Job.filter with hasEquity "true" returns only jobs whose equity is  *)
(* above zero; with another hasEquity, or none, it returns the jobs the    *)
(* other filters select, whatever their equity, also when hasEquity is the *)
(* only key of the query.                                                  *)
C5_HasEquity ==
    (/\ last.op = "Job.filter"
     /\ last.args.query # <<>>
     /\ QueryKeys \subseteq JobValidFilters)
        => /\ last.err = "none"
           /\ last.result = JobsSelected(last.args.query)

(* C6: Company.filter with a key outside name, minEmployees, maxEmployees  *)
(* and Job.filter with a key outside title, minSalary, hasEquity fail with *)
(* BadRequest, also when the query holds valid keys too, and issue no      *)
(* statement to the store.                                                 *)
C6_InvalidFilterRejected ==
    /\ (last.op = "Company.filter" /\ ~(QueryKeys \subseteq CompanyValidFilters))
          => (last.err = "BadRequestError" /\ last.nq = 0)
    /\ (last.op = "Job.filter" /\ ~(QueryKeys \subseteq JobValidFilters))
          => (last.err = "BadRequestError" /\ last.nq = 0)

\* a job query of a valid key followed by an invalid one was refused
C6_Witness ==
    /\ last.op = "Job.filter"
    /\ Len(last.args.query) = 2
    /\ last.args.query[1][1] \in JobValidFilters
    /\ last.args.query[2][1] \notin JobValidFilters
    /\ last.err = "BadRequestError"
    /\ jobs # {}

\* the companies a valid query selects: every bound it supplies holds,
\* inclusively, and the name, if supplied, is contained
CompaniesSelected(query) ==
    {c \in Range(companies) :
        /\ Has(query, "name") => ContainsCI(c.name, At(query, "name"))
        /\ Has(query, "minEmployees") =>
              (c.num_employees # <<>> /\ c.num_employees[1] >= Number(At(query, "minEmployees")))
        /\ Has(query, "maxEmployees") =>
              (c.num_employees # <<>> /\ c.num_employees[1] <= Number(At(query, "maxEmployees")))}

BoundsCrossed(query) ==
    /\ Has(query, "minEmployees")
    /\ Has(query, "maxEmployees")
    /\ Number(At(query, "minEmployees")) > Number(At(query, "maxEmployees"))

(* C7: Company.filter with minEmployees above maxEmployees fails with      *)
(* BadRequest before any statement is issued; with min <= max, or with one *)
(* bound only, the result is exactly the companies whose numEmployees      *)
(* satisfies every supplied inclusive bound (among those whose name        *)
(* matches, when the query also supplies a name).                          *)
C7_EmployeeBounds ==
    last.op = "Company.filter" =>
        LET query == last.args.query
        IN  /\ BoundsCrossed(query) => (last.err = "BadRequestError" /\ last.nq = 0)
            /\ (/\ QueryKeys \subseteq CompanyValidFilters
                /\ Has(query, "minEmployees") \/ Has(query, "maxEmployees")
                /\ ~BoundsCrossed(query))
                  => (last.err = "none" /\ last.result = CompaniesSelected(query))

\* crossed bounds were refused while the table held companies
C7_Witness ==
    /\ last.op = "Company.filter"
    /\ BoundsCrossed(last.args.query)
    /\ last.err = "BadRequestError"
    /\ companies # <<>>

(* C8: sqlForPartialUpdate of an empty field mapping fails with BadRequest *)
(* for every column-name mapping; so Company.update and Job.update with an *)
(* empty payload fail with BadRequest, issue no statement and leave the    *)
(* tables as they were.                                                    *)
C8_EmptyUpdateRejected ==
    /\ \A jsToSql \in JsToSqlSet :
          sqlForPartialUpdate(<<>>, jsToSql).err = "BadRequestError"
    /\ EmptyPayload =>
          /\ last.err = "BadRequestError"
          /\ last.nq = 0
          /\ companies = last.preCompanies
          /\ jobs = last.preJobs

\* an empty update of a company that is in the table was refused
C8_Witness ==
    /\ last.op = "Company.update"
    /\ last.args.data = <<>>
    /\ HandleIn(companies, last.args.handle)
    /\ last.err = "BadRequestError"

\* the column of field k under a column-name mapping
ColumnOf(jsToSql, k) ==
    IF \E j \in 1..Len(jsToSql) : jsToSql[j][1] = k
    THEN jsToSql[CHOOSE j \in 1..Len(jsToSql) : jsToSql[j][1] = k][2]
    ELSE k

(* C9: for a non-empty field mapping with keys k1..kn in insertion order,  *)
(* sqlForPartialUpdate returns n assignments, the i-th being the column of *)
(* ki (its mapped name if the column-name mapping has ki, else ki) bound   *)
(* to placeholder $i, and n values, the i-th being the value of ki.        *)
C9_BuilderResult ==
    (sqlCall.out.err # "not called" /\ sqlCall.dataToUpdate # <<>>) =>
        LET data == sqlCall.dataToUpdate
            out  == sqlCall.out
            n    == Len(data)
        IN  /\ out.err = "none"
            /\ Len(out.setCols) = n
            /\ Len(out.values) = n
            /\ \A i \in 1..n :
                  /\ out.setCols[i].col = ColumnOf(sqlCall.jsToSql, data[i][1])
                  /\ out.setCols[i].ph = i
                  /\ out.values[i] = data[i][2]

\* two fields, the first without a mapped column and the second with one
C9_Witness ==
    /\ sqlCall.out.err = "none"
    /\ Len(sqlCall.dataToUpdate) = 2
    /\ sqlCall.out.setCols[1].col = sqlCall.dataToUpdate[1][1]
    /\ sqlCall.out.setCols[2].col # sqlCall.dataToUpdate[2][1]

VerifiedPayload ==
    IF /\ req.authorization # <<>>
       /\ req.authorization[1].prefix \in {"", "Bearer ", "bearer "}
       /\ req.authorization[1].token.key = SECRET_KEY
    THEN <<req.authorization[1].token.payload>>
    ELSE <<>>

(* C11: authenticateJWT calls next exactly once and without an error; the  *)
(* identity attached is the decoded payload when the header's token        *)
(* verifies after the Bearer prefix is stripped, and none when there is no *)
(* header or the token fails verification.                                 *)
C11_AuthenticateJWT ==
    stage = "authenticateJWT" =>
        /\ nextArg = <<"ok">>
        /\ user = VerifiedPayload

\* a header "bearer <token>" whose token is signed with another key
C11_Witness ==
    /\ stage = "authenticateJWT"
    /\ req.authorization # <<>>
    /\ req.authorization[1].prefix = "bearer "
    /\ req.authorization[1].token.key # SECRET_KEY
    /\ user = <<>>
    /\ nextArg = <<"ok">>

\* the request carries a token that verifies and whose isAdmin is false
NonAdminToken == VerifiedPayload # <<>> /\ ~VerifiedPayload[1].isAdmin

(* C12: while a request to POST /jobs, PATCH /jobs/:id or DELETE /jobs/:id *)
(* that carries a valid token whose isAdmin is false is processed, no      *)
(* repository call is made and the companies and jobs stores do not        *)
(* change, and the response sent to it is 401.                             *)
C12_NonAdminJobRoutes ==
    [][/\ NonAdminToken => UNCHANGED <<companies, jobs, nextId, pc, last>>
       /\ (NonAdminToken /\ stage' = "responded") => res' = <<401>>]_vars

\* a non-admin's request answered with 401 while the store holds a job
C12_Witness ==
    /\ stage = "responded"
    /\ NonAdminToken
    /\ req.route = "PATCH /jobs/:id"
    /\ jobs # {}
    /\ res = <<401>>

(* C13: Job.get(title) fails with NotFound when no job has the title, and  *)
(* otherwise returns a job with that title whose company_handle field is   *)
(* the record of a company in the store whose handle is the job's stored   *)
(* company_handle.                                                         *)
C13_JobGet ==
    last.op = "Job.get" =>
        IF \A j \in last.preJobs : j.title # last.args.title
        THEN last.err = "NotFoundError"
        ELSE /\ last.err = "none"
             /\ \E j \in last.preJobs :
                    /\ j.title = last.args.title
                    /\ j.id = last.result[1].id
                    /\ \E c \in Range(last.preCompanies) :
                           /\ c.handle = j.company_handle
                           /\ last.result[1].company_handle = <<c>>

\* Company.get ran right after a successful Company.create of the handle
GetAfterCreate ==
    /\ last.op = "Company.get"
    /\ last.after.op = "Company.create"
    /\ last.after.err = "none"
    /\ last.after.args.handle = last.args.handle

\* the record Company.get returned holds the values of the payload data
CreatedValues(data) ==
    /\ last.result[1].handle = data.handle
    /\ last.result[1].name = data.name
    /\ last.result[1].description = data.description
    /\ last.result[1].num_employees = data.numEmployees
    /\ last.result[1].logo_url = data.logoUrl

(* C14: Company.get of a handle, right after a Company.create with that    *)
(* handle that found it free, returns a record whose fields hold the       *)
(* created values and whose jobs collection is empty.                      *)
C14_CreateThenGet ==
    GetAfterCreate =>
        /\ last.err = "none"
        /\ CreatedValues(last.after.args)
        /\ last.result[1].jobs = {}

\* job after is job before with the supplied title, salary and equity of
\* data, and every other field as it was
OnlySuppliedChanged(before, after, data) ==
    /\ after.id = before.id
    /\ after.company_handle = before.company_handle
    /\ \A f \in {"title", "salary", "equity"} :
           after[f] = IF Has(data, f) THEN At(data, f) ELSE before[f]

(* C15: a successful Job.update(id, data) leaves every company and every   *)
(* other job unchanged, and changes on the job with that id only the       *)
(* title, salary and equity that data supplies: its id, its company_handle *)
(* and its unsupplied fields stay as they were.                            *)
C15_JobUpdateFrame ==
    (last.op = "Job.update" /\ last.err = "none") =>
        /\ companies = last.preCompanies
        /\ \E before \in last.preJobs, after \in jobs :
               /\ before.id = last.args.id
               /\ OnlySuppliedChanged(before, after, last.args.data)
               /\ jobs \ {after} = last.preJobs \ {before}

=============================================================================
